---- MODULE Spec2Model ----
(***************************************************************************)
(* UrlPreviewService (packages/backend, url-preview): the request pipeline *)
(* of handle() -- parameter checks, feature flag, cache lookup, direct or  *)
(* proxied fetch, scheme validation, icon/thumbnail wrapping, cache write  *)
(* -- run by concurrent requests on one event loop.  Every await of the    *)
(* handler is a suspension point and therefore an action boundary.         *)
(*                                                                         *)
(* Text that the code concatenates, matches or compares (URLs, language    *)
(* tags, cache keys) is a sequence of one-character strings, so that       *)
(* template literals, startsWith and the regular expression of wrap are    *)
(* computed and not assumed.  Fixed texts that are only passed along       *)
(* (header values, error codes) are TLA+ strings.                          *)
(***************************************************************************)
EXTENDS Naturals, Sequences, FiniteSets, TLC

(***************************************************************************)
(* JavaScript values                                                       *)
(***************************************************************************)
Undefined == [t |-> "undefined", v |-> <<>>]
Null == [t |-> "null", v |-> <<>>]
Str(s) == [t |-> "string", v |-> s]
\* A repeated query parameter arrives as an array; v is its first element.
Arr(s) == [t |-> "array", v |-> s]

typeof(x) == IF x.t \in {"array", "null"} THEN "object" ELSE x.t
IsArray(x) == x.t = "array"
\* `${x}` for the values a query parameter can hold
Template(x) == IF x.t = "undefined" THEN <<"u","n","d","e","f","i","n","e","d">>
               ELSE IF x.t = "null" THEN <<"n","u","l","l">>
               ELSE x.v
\* x ?? d
Coalesce(x, d) == IF x.t \in {"undefined", "null"} THEN d ELSE x
\* truthiness of a string-or-nullish value
Truthy(x) == x.t = "string" /\ Len(x.v) > 0

startsWith(s, p) == Len(s) >= Len(p) /\ SubSeq(s, 1, Len(p)) = p

HTTP == <<"h","t","t","p",":","/","/">>
HTTPS == <<"h","t","t","p","s",":","/","/">>
\* /^https?:\/\//
MatchesHttp(s) == startsWith(s, HTTP) \/ startsWith(s, HTTPS)

(***************************************************************************)
(* Texts of the model's universe                                           *)
(***************************************************************************)
PageUrl == HTTPS \o <<"h","/">>
ProfileUrl == PageUrl \o <<"@","u">>
JaJP == <<"j","a","-","J","P">>
UndefinedTag == <<"u","n","d","e","f","i","n","e","d">>
AtTag == <<"u","@">> \o JaJP
ScriptUrl == <<"j","a","v","a","s","c","r","i","p","t",":","0">>
IconUrl == PageUrl \o <<"i">>
RelativeIcon == <<"/","i">>
PlayerUrl == PageUrl \o <<"p">>
SummaryProxy == HTTPS \o <<"s">>
MediaProxy == HTTPS \o <<"m">>
ImgProxy == HTTPS \o <<"x">>

(***************************************************************************)
(* Bounds of the model                                                     *)
(***************************************************************************)
\* how many times the administrator changes the instance settings
MaxUpdates == 1
\* how many cache entries reach the end of their lifetime
MaxExpiries == 1

\* how many characters follow the prefix of an argument of wrap
MaxTail == 2

\* the requests in flight (two, so that requests interleave)
Reqs == {1, 2}

(***************************************************************************)
(* request.query: url and lang as the query-string parser delivers them    *)
(***************************************************************************)
Queries ==
  { [url |-> Str(PageUrl), lang |-> Undefined],
    [url |-> Str(PageUrl), lang |-> Str(JaJP)],
    [url |-> Str(PageUrl), lang |-> Str(UndefinedTag)],
    [url |-> Str(PageUrl), lang |-> Str(AtTag)],
    [url |-> Str(ProfileUrl), lang |-> Str(JaJP)],
    [url |-> Undefined, lang |-> Undefined],
    [url |-> Arr(PageUrl), lang |-> Str(JaJP)],
    [url |-> Str(PageUrl), lang |-> Arr(JaJP)] }

NoQuery == [url |-> Undefined, lang |-> Undefined]

\* the settings MetaService.fetch() can deliver
Metas == [urlPreviewEnabled : BOOLEAN,
          urlPreviewSummaryProxyUrl : {Null, Str(SummaryProxy)}]
NoMeta == [urlPreviewEnabled |-> FALSE, urlPreviewSummaryProxyUrl |-> Undefined]

\* the static configuration: with or without an image proxy
Configs == [imgproxyURL : {Undefined, Str(ImgProxy)}, mediaProxy : {Str(MediaProxy)}]

(***************************************************************************)
(* SummalyResult: the fields the handler reads or rewrites.  hasPlayer is  *)
(* FALSE when the object has no player member (summary.player undefined).  *)
(***************************************************************************)
Summary(title, url, hasPlayer, playerUrl, icon, thumbnail) ==
  [title |-> title, url |-> url, hasPlayer |-> hasPlayer,
   playerUrl |-> playerUrl, icon |-> icon, thumbnail |-> thumbnail]

SummaryFields == {"title", "url", "hasPlayer", "playerUrl", "icon", "thumbnail"}

\* the title of the page at url in language lang
PageTitle(url, lang) == Str(url \o <<"|">> \o lang)

\* What summaly(url, {lang, ...}) can resolve to: the library always builds
\* the player member.
SummalyResults(url, lang) ==
  { Summary(PageTitle(url, lang), Str(url), TRUE, Null, Str(IconUrl), Null),
    Summary(PageTitle(url, lang), Str(url), TRUE, Str(PlayerUrl), Str(RelativeIcon), Str(IconUrl)),
    Summary(PageTitle(url, lang), Str(ScriptUrl), TRUE, Null, Str(IconUrl), Null),
    Summary(PageTitle(url, lang), Str(url), TRUE, Str(ScriptUrl), Str(IconUrl), Null) }

\* What getJson<SummalyResult>() can resolve to: any JSON the proxy sends,
\* also one without a player member.
ProxyResults(url, lang) ==
  SummalyResults(url, lang) \cup
  { Summary(PageTitle(url, lang), Str(url), FALSE, Undefined, Str(IconUrl), Null) }

NoSummary == Undefined

(***************************************************************************)
(* wrap: the image-URL rewriting of icon and thumbnail                     *)
(***************************************************************************)
\* encodeURIComponent on the characters of the model's URLs
EncodeChar(c) == IF c = ":" THEN <<"%","3","A">>
                 ELSE IF c = "/" THEN <<"%","2","F">>
                 ELSE IF c = "@" THEN <<"%","4","0">>
                 ELSE IF c = "&" THEN <<"%","2","6">>
                 ELSE IF c = "=" THEN <<"%","3","D">>
                 ELSE IF c = "?" THEN <<"%","3","F">>
                 ELSE <<c>>

RECURSIVE encodeURIComponent(_)
encodeURIComponent(s) ==
  IF s = <<>> THEN <<>> ELSE EncodeChar(Head(s)) \o encodeURIComponent(Tail(s))

\* query({url, preview: '1'})
query(url) == <<"u","r","l","=">> \o encodeURIComponent(url)
              \o <<"&","p","r","e","v","i","e","w","=","1">>

\* generateImageUrl({endpoint, key, salt, url, options}): the endpoint, a
\* signature over the path (one opaque character here), the fixed
\* processing options and the source URL.
generateImageUrl(endpoint, url) ==
  endpoint \o <<"/","#","/">>
  \o <<"r","s",":","f","i","t",":","0",":","2","0","0",":","1","/">>
  \o <<"p","l","a","i","n","/">> \o url \o <<"@","w","e","b","p">>

\* mutation: with an image proxy configured every string is signed, the
\* test for the http(s) prefix is left out
wrapSignsAll(cfg, url) ==
  IF Truthy(cfg.imgproxyURL)
  THEN IF url.t \notin {"undefined", "null"}
       THEN Str(generateImageUrl(cfg.imgproxyURL.v, url.v))
       ELSE Null
  ELSE IF url.t \notin {"undefined", "null"}
       THEN IF MatchesHttp(url.v)
            THEN Str(cfg.mediaProxy.v
                     \o <<"/","p","r","e","v","i","e","w",".","w","e","b","p","?">>
                     \o query(url.v))
            ELSE url
       ELSE Null

wrap(cfg, url) ==
  IF Truthy(cfg.imgproxyURL)
  THEN IF url.t \notin {"undefined", "null"}
       THEN IF MatchesHttp(url.v)
            THEN Str(generateImageUrl(cfg.imgproxyURL.v, url.v))
            ELSE url
       ELSE Null
  ELSE IF url.t \notin {"undefined", "null"}
       THEN IF MatchesHttp(url.v)
            THEN Str(cfg.mediaProxy.v
                     \o <<"/","p","r","e","v","i","e","w",".","w","e","b","p","?">>
                     \o query(url.v))
            ELSE url
       ELSE Null

\* The arguments wrap is called with on its own: nothing, or a prefix
\* followed by up to MaxTail characters.
WrapAlphabet == {"a", "/", "@", "&"}
WrapPrefixes ==
  { <<>>, HTTP, HTTPS, <<"/">>, <<"H","T","T","P",":","/","/">>,
    <<"f","t","p",":","/","/">>, <<"x">> \o HTTP, <<"h","t","t","p",":">> }
WrapTails == UNION { [1..n -> WrapAlphabet] : n \in 0..MaxTail }
WrapInputs ==
  {Undefined, Null} \cup { Str(p \o t) : p \in WrapPrefixes, t \in WrapTails }

(***************************************************************************)
(* The pieces of handle()                                                  *)
(***************************************************************************)
\* mutation: the key leaves the language out
KeyOfUrlOnly(url, lang) == Template(url)

\* const key = `${url}@${lang}`
KeyOf(url, lang) == Template(url) \o <<"@">> \o Template(lang)

\* lang ?? 'ja-JP', as both fetch paths pass it on
FetchLang(lang) == Coalesce(lang, Str(JaJP)).v

\* mutation: the url check tests only for a missing value, if (!url)
BadUrlFalsy(q) == ~(q.url.t = "array" \/ Truthy(q.url))

\* mutation: the array test is applied to url, not to lang
BadLangOnUrl(q) == IsArray(q.url)

\* the two parameter checks at the head of handle()
BadUrl(q) == typeof(q.url) # "string"
BadLang(q) == IsArray(q.lang)

\* mutation: the feature-flag test is inverted
DisabledInverted(m) == m.urlPreviewEnabled

\* the feature-flag test
Disabled(m) == ~m.urlPreviewEnabled

\* mutation: the hit test asks for a value the cache never returns,
\* cached === null, so every read counts as a miss
IsHitNull(cached) == cached = Null

\* cached !== undefined
IsHit(cached) == cached # Undefined

\* mutation: the two branches of the fetch are swapped
UsesProxySwapped(m) == ~Truthy(m.urlPreviewSummaryProxyUrl)

\* meta.urlPreviewSummaryProxyUrl ? fetchSummaryFromProxy : fetchSummary
UsesProxy(m) == Truthy(m.urlPreviewSummaryProxyUrl)

FetchResults(m, url, lang) ==
  IF UsesProxy(m) THEN ProxyResults(url.v, FetchLang(lang))
  ELSE SummalyResults(url.v, FetchLang(lang))

\* mutation: the first scheme test rejects data: URLs only
BadCanonicalDataOnly(s) == startsWith(s.url.v, <<"d","a","t","a",":">>)

\* the first scheme test throws
BadCanonical(s) ==
  ~(startsWith(s.url.v, HTTP) \/ startsWith(s.url.v, HTTPS))

\* reading summary.player.url throws a TypeError when there is no player
NoPlayer(s) == ~s.hasPlayer

\* mutation: the second scheme test looks at summary.url again
BadPlayerOnUrl(s) ==
  Truthy(s.playerUrl)
  /\ ~(startsWith(s.url.v, HTTP) \/ startsWith(s.url.v, HTTPS))

\* the second scheme test throws
BadPlayer(s) ==
  Truthy(s.playerUrl)
  /\ ~(startsWith(s.playerUrl.v, HTTP) \/ startsWith(s.playerUrl.v, HTTPS))

\* mutation: the test of the player URL is left out
ValidatesCanonicalOnly(s) == ~BadCanonical(s) /\ ~NoPlayer(s)

\* mutation: the test of the result's own URL is left out
ValidatesPlayerOnly(s) == ~NoPlayer(s) /\ ~BadPlayer(s)

\* whether the try block reaches the cache write with this result
Validates(s) == ~BadCanonical(s) /\ ~NoPlayer(s) /\ ~BadPlayer(s)

\* mutation: the thumbnail is stored as fetched
RewrittenIconOnly(cfg, s) == [s EXCEPT !.icon = wrap(cfg, s.icon)]

\* summary.icon = this.wrap(summary.icon); summary.thumbnail = ...
Rewritten(cfg, s) ==
  [s EXCEPT !.icon = wrap(cfg, s.icon), !.thumbnail = wrap(cfg, s.thumbnail)]

(***************************************************************************)
(* Replies                                                                 *)
(***************************************************************************)
SevenDays == "max-age=604800, immutable"
OneDay == "max-age=86400, immutable"
NoHeader == ""

DisabledError == [error |-> [message |-> "URL preview is disabled",
                             code |-> "URL_PREVIEW_DISABLED",
                             id |-> "58b36e13-d2f5-0323-b0c6-76aa9dabefb8"]]
FailedError == [error |-> [message |-> "Failed to get preview",
                           code |-> "URL_PREVIEW_FAILED",
                           id |-> "09d01cb5-53b9-4856-82e5-38a50c290a3b"]]

\* What the try block can throw: the fetch rejects (network error, timeout,
\* content length), a scheme test throws, summary.player is undefined, or
\* the cache write rejects.  Outside the try block: the settings read or
\* the cache read rejects.
FetchErrors == {"network error", "timeout", "content length limit"}
NoError == "none"
NotCalled == [t |-> "not called", v |-> <<>>]

\* a fresh FastifyReply: status 200 until reply.code() is called
FreshReply == [code |-> 200, cacheControl |-> NoHeader, body |-> Undefined]
Reply(code, cacheControl, body) ==
  [code |-> code, cacheControl |-> cacheControl, body |-> body]

\* mutation: a timeout is answered with its own status
FailureReplyByKind(e) ==
  IF e = "timeout" THEN Reply(504, NoHeader, FailedError)
  ELSE Reply(422, OneDay, FailedError)

\* mutation: the catch block sets the header of the success path
FailureReplySevenDays(e) == Reply(422, SevenDays, FailedError)

\* mutation: the catch block sends the exception's message
FailureReplyWithCause(e) ==
  Reply(422, OneDay, [error |-> [message |-> e,
                                 code |-> "URL_PREVIEW_FAILED",
                                 id |-> "09d01cb5-53b9-4856-82e5-38a50c290a3b"]])

\* the catch block: whatever e is, it is logged and not sent
FailureReply(e) == Reply(422, OneDay, FailedError)

\* the exception the validation of s throws
ValidationError(s) ==
  IF BadCanonical(s) THEN "unsupported schema included"
  ELSE IF NoPlayer(s) THEN "TypeError"
  ELSE "unsupported schema included"

(***************************************************************************)
(* State                                                                   *)
(***************************************************************************)
VARIABLES
  settings,      \* what MetaService.fetch() currently delivers
  config,        \* this.config
  previewCache,  \* key -> SummalyResult, for the keys that are present
  updates,       \* settings changes so far
  expiries,      \* expired entries so far
  pc,            \* where each request stands in handle()
  request,       \* request.query
  meta,          \* the settings the request read
  key,           \* the request's cache key
  summary,       \* the request's validated and rewritten result
  reply,         \* the status, Cache-Control header and returned body
  calls,         \* history: the collaborators the request has called, in order
  fetched,       \* history: what the request's fetch resolved to
  prior,         \* history: the entry an identical earlier call stored under
                 \* the request's key, for as long as the cache has held it
  source,        \* history: the query whose fetch produced the returned summary
  writer,        \* history: the query of the request that wrote each entry
  everEnabled,   \* history: the feature flag has been on at some time
  err,           \* the exception the request raised (caught or not), or NoError
  wrote,         \* history: the requests that wrote the cache, in order
  wrapIn,        \* the argument of a call of wrap on its own
  wrapOut,       \* what that call returned
  mock,          \* MkNote: props.mock
  channel,       \* MkNote: appearNote.value.channel
  canRenote,     \* MkNote: canRenote.value
  showVisibilitySelectorOnBoost,  \* MkNote: defaultStore.state
  renoting,      \* MkNote: let renoting
  renoted,       \* MkNote: renoted.value
  menuOpen,      \* MkNote: the menu of boostMenuItems is showing
  pending,       \* MkNote: notes/create requests in flight
  sent,          \* MkNote: the parameters of the latest notes/create request
  last           \* MkNote, history: the handler that ran last

\* the state of the calls of wrap on its own, which handle() leaves alone
noteVars == <<mock, channel, canRenote, showVisibilitySelectorOnBoost, renoting,
              renoted, menuOpen, pending, sent, last>>

aside == <<wrapIn, wrapOut, noteVars>>

handleVars == <<settings, config, previewCache, updates, expiries, pc, request,
                meta, key, summary, reply, calls, fetched, prior, source,
                writer, everEnabled, err, wrote>>

vars == <<settings, config, previewCache, updates, expiries, pc, request, meta,
          key, summary, reply, calls, fetched, prior, source, writer,
          everEnabled, err, wrote, wrapIn, wrapOut, mock, channel, canRenote,
          showVisibilitySelectorOnBoost, renoting, renoted, menuOpen, pending,
          sent, last>>

\* toRedisConverter: JSON.stringify(value) leaves out the members whose
\* value is undefined
toRedisConverter(value) ==
  [f \in {g \in DOMAIN value : g = "hasPlayer" \/ value[g] # Undefined} |-> value[f]]

\* fromRedisConverter: JSON.parse(value); a member that is not in the text
\* reads as undefined
fromRedisConverter(value) ==
  [f \in SummaryFields |-> IF f \in DOMAIN value THEN value[f] ELSE Undefined]

\* RedisKVCache.get: the stored value, or undefined; never the fetcher.
\* The in-process tier hands back the object that was set, the Redis tier
\* its JSON round trip.
CacheGetValue(k) ==
  IF k \in DOMAIN previewCache THEN fromRedisConverter(previewCache[k]) ELSE Undefined

\* RedisKVCache.set
CachePut(cache, k, v) == (k :> toRedisConverter(v)) @@ cache

\* an entry removed at the end of its lifetime
CacheDrop(cache, k) == [x \in DOMAIN cache \ {k} |-> cache[x]]

WellFormed(q) == ~BadUrl(q) /\ ~BadLang(q)

\* the requests whose held entry is gone once key k is rewritten or expires
Forget(k, except) ==
  [r \in Reqs |->
     IF r # except /\ pc[r] \in {"meta", "get"} /\ WellFormed(request[r])
        /\ KeyOf(request[r].url, request[r].lang) = k
     THEN Undefined ELSE prior[r]]

\* the query of the request that wrote the entry under k
WriterOf(k) == IF k \in DOMAIN writer THEN writer[k] ELSE NoQuery

\* the entry an earlier call with the same url and lang stored, if still held
StoredFor(q) ==
  LET k == KeyOf(q.url, q.lang) IN
    IF k \in DOMAIN previewCache /\ writer[k] = q THEN CacheGetValue(k) ELSE Undefined

InitHandle ==
  /\ settings \in Metas
  /\ config \in Configs
  /\ previewCache = <<>>
  /\ updates = 0
  /\ expiries = 0
  /\ pc = [r \in Reqs |-> "idle"]
  /\ request = [r \in Reqs |-> NoQuery]
  /\ meta = [r \in Reqs |-> NoMeta]
  /\ key = [r \in Reqs |-> <<>>]
  /\ summary = [r \in Reqs |-> NoSummary]
  /\ reply = [r \in Reqs |-> FreshReply]
  /\ calls = [r \in Reqs |-> <<>>]
  /\ fetched = [r \in Reqs |-> NoSummary]
  /\ prior = [r \in Reqs |-> Undefined]
  /\ source = [r \in Reqs |-> NoQuery]
  /\ writer = <<>>
  /\ everEnabled = settings.urlPreviewEnabled
  /\ err = [r \in Reqs |-> NoError]
  /\ wrote = <<>>

\* the note component as set up (let renoting = false, renoted = ref(false)),
\* nothing requested, no menu showing
NoRequest == "none"
NoHandler == "none"
NoteMounted ==
  /\ renoting = FALSE
  /\ renoted = FALSE
  /\ menuOpen = FALSE
  /\ pending = 0
  /\ sent = NoRequest
  /\ last = NoHandler

\* no note component next to the service
NoNote ==
  /\ NoteMounted
  /\ mock = FALSE
  /\ channel = "none"
  /\ canRenote = FALSE
  /\ showVisibilitySelectorOnBoost = FALSE

Init ==
  /\ InitHandle
  /\ wrapIn = Undefined
  /\ wrapOut = NotCalled
  /\ NoNote

(***************************************************************************)
(* handle(), from its entry to the first await: the two parameter checks   *)
(***************************************************************************)
Call(r, q) ==
  /\ pc[r] = "idle"
  /\ request' = [request EXCEPT ![r] = q]
  /\ IF BadUrl(q) \/ BadLang(q)
     THEN /\ reply' = [reply EXCEPT ![r] = Reply(400, NoHeader, Undefined)]
          /\ pc' = [pc EXCEPT ![r] = "done"]
          /\ prior' = prior
     ELSE /\ pc' = [pc EXCEPT ![r] = "meta"]
          /\ prior' = [prior EXCEPT ![r] = StoredFor(q)]
          /\ reply' = reply
  /\ UNCHANGED <<settings, config, previewCache, updates, expiries, meta, key,
                 summary, calls, fetched, source, writer, everEnabled,
                 wrote, err, aside>>

\* mutation: the request goes on to the cache without testing the flag
MetaFetchedUnchecked(r) ==
  /\ pc[r] = "meta"
  /\ calls' = [calls EXCEPT ![r] = Append(@, "meta")]
  /\ meta' = [meta EXCEPT ![r] = settings]
  /\ key' = [key EXCEPT ![r] = KeyOf(request[r].url, request[r].lang)]
  /\ pc' = [pc EXCEPT ![r] = "get"]
  /\ UNCHANGED <<settings, config, previewCache, updates, expiries, request,
                 summary, reply, fetched, prior, source, writer, everEnabled,
                 wrote, err, aside>>

(***************************************************************************)
(* await this.metaService.fetch() and what follows it up to the cache read *)
(***************************************************************************)
MetaFetched(r) ==
  /\ pc[r] = "meta"
  /\ calls' = [calls EXCEPT ![r] = Append(@, "meta")]
  /\ meta' = [meta EXCEPT ![r] = settings]
  /\ IF Disabled(settings)
     THEN /\ reply' = [reply EXCEPT ![r] = Reply(403, NoHeader, DisabledError)]
          /\ pc' = [pc EXCEPT ![r] = "done"]
          /\ key' = key
     ELSE /\ key' = [key EXCEPT ![r] = KeyOf(request[r].url, request[r].lang)]
          /\ pc' = [pc EXCEPT ![r] = "get"]
          /\ reply' = reply
  /\ UNCHANGED <<settings, config, previewCache, updates, expiries, request,
                 summary, fetched, prior, source, writer, everEnabled,
                 wrote, err, aside>>

\* metaService.fetch() rejects: the await is outside the try block
MetaFailed(r) ==
  /\ pc[r] = "meta"
  /\ calls' = [calls EXCEPT ![r] = Append(@, "meta")]
  /\ pc' = [pc EXCEPT ![r] = "thrown"]
  /\ err' = [err EXCEPT ![r] = "settings read"]
  /\ UNCHANGED <<settings, config, previewCache, updates, expiries, request,
                 meta, key, summary, reply, fetched, prior, source, writer, everEnabled,
                 wrote, aside>>

(***************************************************************************)
(* await this.previewCache.get(key) and the hit branch                     *)
(***************************************************************************)
\* mutation: a read-through cache, which on a miss computes a value with
\* its fetcher and keeps it
CacheReadThrough(r) ==
  /\ pc[r] = "get"
  /\ calls' = [calls EXCEPT ![r] = Append(@, "get")]
  /\ LET cached == CacheGetValue(key[r]) IN
       IF IsHit(cached)
       THEN /\ reply' = [reply EXCEPT ![r] = Reply(reply[r].code, SevenDays, cached)]
            /\ pc' = [pc EXCEPT ![r] = "done"]
            /\ source' = [source EXCEPT ![r] = WriterOf(key[r])]
            /\ previewCache' = previewCache
       ELSE /\ pc' = [pc EXCEPT ![r] = "fetch"]
            /\ reply' = reply
            /\ source' = source
            /\ previewCache' =
                 CachePut(previewCache, key[r],
                          Summary(Null, Str(request[r].url.v), TRUE, Null, Null, Null))
  /\ UNCHANGED <<settings, config, updates, expiries, request,
                 meta, key, summary, fetched, prior, writer, everEnabled,
                 wrote, err, aside>>

CacheRead(r) ==
  /\ pc[r] = "get"
  /\ calls' = [calls EXCEPT ![r] = Append(@, "get")]
  /\ LET cached == CacheGetValue(key[r]) IN
       IF IsHit(cached)
       THEN /\ reply' = [reply EXCEPT ![r] = Reply(reply[r].code, SevenDays, cached)]
            /\ pc' = [pc EXCEPT ![r] = "done"]
            /\ source' = [source EXCEPT ![r] = WriterOf(key[r])]
       ELSE /\ pc' = [pc EXCEPT ![r] = "fetch"]
            /\ reply' = reply
            /\ source' = source
  /\ UNCHANGED <<settings, config, previewCache, updates, expiries, request,
                 meta, key, summary, fetched, prior, writer, everEnabled,
                 wrote, err, aside>>

\* previewCache.get() rejects: this await is outside the try block too
CacheReadFailed(r) ==
  /\ pc[r] = "get"
  /\ calls' = [calls EXCEPT ![r] = Append(@, "get")]
  /\ pc' = [pc EXCEPT ![r] = "thrown"]
  /\ err' = [err EXCEPT ![r] = "cache read"]
  /\ UNCHANGED <<settings, config, previewCache, updates, expiries, request,
                 meta, key, summary, reply, fetched, prior, source, writer, everEnabled,
                 wrote, aside>>

(***************************************************************************)
(* The try block: the fetch resolves, then the scheme tests, the rewriting *)
(* of icon and thumbnail, up to the await of the cache write               *)
(***************************************************************************)
FetchKind(m) == IF UsesProxy(m) THEN "proxy" ELSE "direct"

Fetched(r, s) ==
  /\ pc[r] = "fetch"
  /\ s \in FetchResults(meta[r], request[r].url, request[r].lang)
  /\ calls' = [calls EXCEPT ![r] = Append(@, FetchKind(meta[r]))]
  /\ fetched' = [fetched EXCEPT ![r] = s]
  /\ IF Validates(s)
     THEN /\ summary' = [summary EXCEPT ![r] = Rewritten(config, s)]
          /\ pc' = [pc EXCEPT ![r] = "set"]
          /\ reply' = reply
          /\ err' = err
     ELSE /\ err' = [err EXCEPT ![r] = ValidationError(s)]
          /\ reply' = [reply EXCEPT ![r] = FailureReply(ValidationError(s))]
          /\ pc' = [pc EXCEPT ![r] = "done"]
          /\ summary' = summary
  /\ UNCHANGED <<settings, config, previewCache, updates, expiries, request,
                 meta, key, prior, source, writer, everEnabled,
                 wrote, aside>>

\* summaly() or getJson() rejects (network error, timeout, content length)
FetchFailed(r, e) ==
  /\ pc[r] = "fetch"
  /\ e \in FetchErrors
  /\ calls' = [calls EXCEPT ![r] = Append(@, FetchKind(meta[r]))]
  /\ err' = [err EXCEPT ![r] = e]
  /\ reply' = [reply EXCEPT ![r] = FailureReply(e)]
  /\ pc' = [pc EXCEPT ![r] = "done"]
  /\ UNCHANGED <<settings, config, previewCache, updates, expiries, request,
                 meta, key, summary, fetched, prior, source, writer, everEnabled,
                 wrote, aside>>

(***************************************************************************)
(* await this.previewCache.set(key, summary) and the return                *)
(***************************************************************************)
CacheWritten(r) ==
  /\ pc[r] = "set"
  /\ calls' = [calls EXCEPT ![r] = Append(@, "set")]
  /\ previewCache' = CachePut(previewCache, key[r], summary[r])
  /\ writer' = (key[r] :> request[r]) @@ writer
  /\ wrote' = Append(wrote, r)
  /\ prior' = Forget(key[r], r)
  /\ source' = [source EXCEPT ![r] = request[r]]
  /\ reply' = [reply EXCEPT ![r] = Reply(reply[r].code, SevenDays, summary[r])]
  /\ pc' = [pc EXCEPT ![r] = "done"]
  /\ UNCHANGED <<settings, config, updates, expiries, request, meta, key,
                 summary, fetched, everEnabled,
                 err, aside>>

\* previewCache.set() rejects inside the try block
CacheWriteFailed(r) ==
  /\ pc[r] = "set"
  /\ calls' = [calls EXCEPT ![r] = Append(@, "set")]
  /\ err' = [err EXCEPT ![r] = "cache write"]
  /\ reply' = [reply EXCEPT ![r] = FailureReply("cache write")]
  /\ pc' = [pc EXCEPT ![r] = "done"]
  /\ UNCHANGED <<settings, config, previewCache, updates, expiries, request,
                 meta, key, summary, fetched, prior, source, writer, everEnabled,
                 wrote, aside>>

(***************************************************************************)
(* The environment                                                         *)
(***************************************************************************)
\* the administrator saves other instance settings
UpdateSettings(m) ==
  /\ updates < MaxUpdates
  /\ m \in Metas
  /\ m # settings
  /\ settings' = m
  /\ updates' = updates + 1
  /\ everEnabled' = (everEnabled \/ m.urlPreviewEnabled)
  /\ UNCHANGED <<config, previewCache, expiries, pc, request, meta, key,
                 summary, reply, calls, fetched, prior, source, writer,
                 wrote, err, aside>>

\* an entry reaches the end of its lifetime (lifetime: 1000 * 86400)
Expire(k) ==
  /\ expiries < MaxExpiries
  /\ k \in DOMAIN previewCache
  /\ previewCache' = CacheDrop(previewCache, k)
  /\ writer' = CacheDrop(writer, k)
  /\ prior' = Forget(k, 0)
  /\ expiries' = expiries + 1
  /\ UNCHANGED <<settings, config, updates, pc, request, meta, key, summary,
                 reply, calls, fetched, source, everEnabled,
                 wrote, err, aside>>

Next ==
  \/ \E r \in Reqs, q \in Queries : Call(r, q)
  \/ \E r \in Reqs : MetaFetched(r)
  \/ \E r \in Reqs : MetaFailed(r)
  \/ \E r \in Reqs : CacheRead(r)
  \/ \E r \in Reqs : CacheReadFailed(r)
  \/ \E r \in Reqs :
        \E s \in FetchResults(meta[r], request[r].url, request[r].lang) : Fetched(r, s)
  \/ \E r \in Reqs, e \in FetchErrors : FetchFailed(r, e)
  \/ \E r \in Reqs : CacheWritten(r)
  \/ \E r \in Reqs : CacheWriteFailed(r)
  \/ \E m \in Metas : UpdateSettings(m)
  \/ \E k \in DOMAIN previewCache : Expire(k)

Spec == Init /\ [][Next]_vars

(***************************************************************************)
(* wrap called on its own: one argument, one configuration, one call       *)
(***************************************************************************)
InitWrap ==
  /\ InitHandle
  /\ settings = [urlPreviewEnabled |-> TRUE, urlPreviewSummaryProxyUrl |-> Null]
  /\ wrapIn \in WrapInputs
  /\ wrapOut = NotCalled
  /\ NoNote

CallWrap ==
  /\ wrapOut = NotCalled
  /\ wrapOut' = wrap(config, wrapIn)
  /\ UNCHANGED <<settings, config, previewCache, updates, expiries, pc, request,
                 meta, key, summary, reply, calls, fetched, prior, source,
                 writer, everEnabled, err, wrote, wrapIn, noteVars>>

NextWrap == CallWrap

SpecWrap == InitWrap /\ [][NextWrap]_vars

(***************************************************************************)
(* MkNote.vue: the renote button, the 'q' shortcut and the renoting flag.  *)
(* The menu of boostMenuItems takes the pointer and the keyboard while it  *)
(* is showing, so the button and the shortcut act only when it is closed.  *)
(***************************************************************************)
Channels == {"none", "closed", "open"}   \* no channel; allowRenoteToExternal false; true

InitNote ==
  /\ InitHandle
  /\ settings = [urlPreviewEnabled |-> TRUE, urlPreviewSummaryProxyUrl |-> Null]
  /\ wrapIn = Undefined
  /\ wrapOut = NotCalled
  /\ NoteMounted
  /\ mock \in BOOLEAN
  /\ channel \in Channels
  /\ canRenote \in BOOLEAN
  /\ showVisibilitySelectorOnBoost \in BOOLEAN

\* function renote(visibility, localOnly), run by handler h
renote(h) ==
  /\ renoting' = TRUE
  /\ last' = h
  /\ IF channel # "none"
     THEN IF ~mock
          THEN pending' = pending + 1 /\ sent' = "channel"
          ELSE pending' = pending /\ sent' = sent
     ELSE IF ~mock
          THEN pending' = pending + 1 /\ sent' = "plain"
          ELSE pending' = pending /\ sent' = sent

\* @mousedown on the renote button when not renoted: boostVisibility()
BoostVisibility ==
  /\ canRenote /\ ~renoted /\ ~menuOpen
  /\ IF renoting
     THEN /\ last' = "boostVisibility returned"
          /\ UNCHANGED <<renoting, pending, sent, menuOpen>>
     ELSE IF ~showVisibilitySelectorOnBoost
          THEN renote("boostVisibility") /\ menuOpen' = menuOpen
          ELSE /\ menuOpen' = TRUE
               /\ last' = "boostVisibility"
               /\ UNCHANGED <<renoting, pending, sent>>
  /\ UNCHANGED <<handleVars, wrapIn, wrapOut, mock, channel, canRenote,
                 showVisibilitySelectorOnBoost, renoted>>

\* keymap '(q)'
Shortcut ==
  /\ ~menuOpen
  /\ IF canRenote /\ ~renoted /\ ~renoting
     THEN renote("q")
     ELSE last' = "q ignored" /\ UNCHANGED <<renoting, pending, sent>>
  /\ UNCHANGED <<handleVars, wrapIn, wrapOut, mock, channel, canRenote,
                 showVisibilitySelectorOnBoost, renoted, menuOpen>>

\* an item of the menu is chosen: the menu calls the renote it was given
ChooseBoost ==
  /\ menuOpen
  /\ menuOpen' = FALSE
  /\ renote("menu")
  /\ UNCHANGED <<handleVars, wrapIn, wrapOut, mock, channel, canRenote,
                 showVisibilitySelectorOnBoost, renoted>>

\* the menu is closed without a choice
DismissMenu ==
  /\ menuOpen
  /\ menuOpen' = FALSE
  /\ last' = "menu closed"
  /\ UNCHANGED <<handleVars, wrapIn, wrapOut, mock, channel, canRenote,
                 showVisibilitySelectorOnBoost, renoting, renoted, pending, sent>>

\* notes/create resolves: .then(...) and .finally(...)
Created ==
  /\ pending > 0
  /\ pending' = pending - 1
  /\ renoted' = TRUE
  /\ renoting' = FALSE
  /\ last' = "created"
  /\ UNCHANGED <<handleVars, wrapIn, wrapOut, mock, channel, canRenote,
                 showVisibilitySelectorOnBoost, menuOpen, sent>>

\* notes/create rejects: .finally(...) only
CreateFailed ==
  /\ pending > 0
  /\ pending' = pending - 1
  /\ renoting' = FALSE
  /\ last' = "create failed"
  /\ UNCHANGED <<handleVars, wrapIn, wrapOut, mock, channel, canRenote,
                 showVisibilitySelectorOnBoost, menuOpen, sent, renoted>>

\* @mousedown on the renote button when renoted: undoRenote(appearNote)
UndoRenote ==
  /\ canRenote /\ renoted /\ ~menuOpen
  /\ ~mock
  /\ renoted' = FALSE
  /\ last' = "undoRenote"
  /\ UNCHANGED <<handleVars, wrapIn, wrapOut, mock, channel, canRenote,
                 showVisibilitySelectorOnBoost, renoting, menuOpen, pending, sent>>

Settled == Created \/ CreateFailed

NextNote ==
  \/ BoostVisibility
  \/ Shortcut
  \/ ChooseBoost
  \/ DismissMenu
  \/ Created
  \/ CreateFailed
  \/ UndoRenote

\* a request that was sent is answered or fails; the user need not act
SpecNote == InitNote /\ [][NextNote]_vars /\ WF_vars(Settled)

(***************************************************************************)
(* Vocabulary of the properties                                            *)
(***************************************************************************)
Ended(r) == pc[r] \in {"done", "thrown"}
Called(c, what) == \E i \in DOMAIN c : c[i] \in what
NoFetch(c) == ~Called(c, {"direct", "proxy"})
NoCache(c) == ~Called(c, {"get", "set"})
HasRead(r) == meta[r] \in Metas
IsString(x) == x.t = "string"
NotAString(x) == x.t \in {"undefined", "null", "array"}
HttpScheme(x) == IsString(x) /\ (startsWith(x.v, HTTP) \/ startsWith(x.v, HTTPS))
HasKey(r) == key[r] # <<>>
Keeps(v) == \E k \in DOMAIN previewCache : CacheGetValue(k) = v

(***************************************************************************)
(* C1                                                                      *)
(***************************************************************************)
\* C1 as stated: a call made while an identical earlier call's entry is in
\* the cache, and held until the call ends, returns exactly the stored
\* SummaryResult with status 200 and issues no fetch.
C1_SecondCallReturnsStored ==
  \A r \in Reqs :
    (pc[r] = "done" /\ prior[r] # Undefined) =>
      /\ reply[r].code = 200
      /\ reply[r].body = prior[r]
      /\ NoFetch(calls[r])

\* C1, amended: such a call never issues a fetch, and when it has read the
\* feature flag as enabled and its cache read has succeeded it returns
\* exactly the stored SummaryResult, status 200 and the 7-day directive.
C1_HitReturnsStored ==
  \A r \in Reqs :
    prior[r] # Undefined =>
      /\ pc[r] \in {"meta", "get", "done", "thrown"}
      /\ NoFetch(calls[r])
      /\ (pc[r] = "done" /\ HasRead(r) /\ meta[r].urlPreviewEnabled) =>
           reply[r] = Reply(200, SevenDays, prior[r])

C1_Witness ==
  \E r \in Reqs :
    /\ pc[r] = "done"
    /\ prior[r] # Undefined
    /\ reply[r] = Reply(200, SevenDays, prior[r])
    /\ calls[r] = <<"meta", "get">>

(***************************************************************************)
(* C2                                                                      *)
(***************************************************************************)
\* C2: for one url and two different language tags the requests use
\* different keys, and a summary that a request for one tag stored is never
\* returned to a request for the other tag.
C2_LanguagesKeptApart ==
  /\ \A r1, r2 \in Reqs :
       ( /\ HasKey(r1) /\ HasKey(r2)
         /\ request[r1].url = request[r2].url
         /\ IsString(request[r1].lang) /\ IsString(request[r2].lang)
         /\ request[r1].lang # request[r2].lang ) => key[r1] # key[r2]
  /\ \A r \in Reqs :
       ( /\ pc[r] = "done" /\ reply[r].code = 200
         /\ IsString(request[r].lang) /\ IsString(source[r].lang)
         /\ source[r].url = request[r].url ) => source[r].lang = request[r].lang

\* the second tag's request missed and fetched although the first tag's
\* summary was cached
C2_Witness ==
  \E r1, r2 \in Reqs :
    /\ request[r1].url = request[r2].url
    /\ IsString(request[r1].lang) /\ IsString(request[r2].lang)
    /\ request[r1].lang # request[r2].lang
    /\ pc[r1] = "done" /\ reply[r1].code = 200
    /\ prior[r2] = Undefined /\ pc[r2] = "done" /\ reply[r2].code = 200
    /\ ~NoFetch(calls[r2])
    /\ key[r1] \in DOMAIN previewCache /\ key[r2] \in DOMAIN previewCache
    /\ writer[key[r1]] = request[r1] /\ writer[key[r2]] = request[r2]

(***************************************************************************)
(* C3                                                                      *)
(***************************************************************************)
\* C3 as stated: two requests whose (url, lang) pairs differ have different
\* cache keys, and a 200 response carries a summary fetched for the
\* request's own pair.
C3_KeysCollisionFree ==
  /\ \A r1, r2 \in Reqs :
       (HasKey(r1) /\ HasKey(r2) /\ request[r1] # request[r2]) => key[r1] # key[r2]
  /\ \A r \in Reqs :
       (pc[r] = "done" /\ reply[r].code = 200) => source[r] = request[r]

(***************************************************************************)
(* C4                                                                      *)
(***************************************************************************)
\* C4 as stated: the key of a request without lang is the key of the same
\* url with the fallback locale ja-JP.
C4_AbsentLangKeyedAsFallback ==
  \A r \in Reqs :
    (HasKey(r) /\ request[r].lang = Undefined) =>
      key[r] = request[r].url.v \o <<"@">> \o JaJP

(***************************************************************************)
(* C5                                                                      *)
(***************************************************************************)
\* C5 as stated: while the feature flag is off, every call, with whatever
\* parameters, is answered 403 with the URL_PREVIEW_DISABLED envelope and
\* calls neither the cache nor a fetch.
C5_DisabledAlways403 ==
  \A r \in Reqs :
    (pc[r] = "done" /\ ~everEnabled) =>
      /\ reply[r].code = 403
      /\ reply[r].body = DisabledError
      /\ NoCache(calls[r]) /\ NoFetch(calls[r])

\* C5, amended: while the feature flag is off no call reaches the cache or
\* a fetch; a call with a string url and no array lang is answered 403 with
\* the URL_PREVIEW_DISABLED envelope, and a call with a missing or
\* non-string url or an array lang is answered 400 with an empty body.
C5_DisabledRejects ==
  \A r \in Reqs :
    ~everEnabled =>
      /\ NoCache(calls[r]) /\ NoFetch(calls[r])
      /\ pc[r] \in {"idle", "meta", "done", "thrown"}
      /\ pc[r] = "done" =>
           IF NotAString(request[r].url) \/ request[r].lang.t = "array"
           THEN reply[r] = Reply(400, NoHeader, Undefined)
           ELSE reply[r] = Reply(403, NoHeader, DisabledError)

C5_Witness ==
  /\ ~everEnabled
  /\ \E r1, r2 \in Reqs :
       /\ pc[r1] = "done" /\ IsString(request[r1].url) /\ reply[r1].code = 403
       /\ pc[r2] = "done" /\ NotAString(request[r2].url) /\ reply[r2].code = 400

(***************************************************************************)
(* C6                                                                      *)
(***************************************************************************)
\* C6: a request that read the feature flag as off has called nothing but
\* the configuration source, no cache read, no cache write, no fetch, and
\* its response is the 403 envelope, also when a summary is cached for it.
C6_FlagBeforeCacheAndFetch ==
  \A r \in Reqs :
    (HasRead(r) /\ ~meta[r].urlPreviewEnabled) =>
      /\ pc[r] = "done"
      /\ calls[r] = <<"meta">>
      /\ reply[r] = Reply(403, NoHeader, DisabledError)

\* a summary was cached for the request's own url and lang, and it got 403
C6_Witness ==
  \E r \in Reqs :
    /\ HasRead(r) /\ ~meta[r].urlPreviewEnabled
    /\ StoredFor(request[r]) # Undefined
    /\ reply[r].code = 403

(***************************************************************************)
(* C7                                                                      *)
(***************************************************************************)
\* C7: a request whose fetch resolved to a result with a canonical URL that
\* is neither http nor https ends with the 422 URL_PREVIEW_FAILED response,
\* has not called the cache write, and the cache holds that result neither
\* as fetched nor rewritten.
C7_BadCanonicalNotCached ==
  \A r \in Reqs :
    (fetched[r] # NoSummary /\ ~HttpScheme(fetched[r].url)) =>
      /\ pc[r] = "done"
      /\ reply[r] = Reply(422, OneDay, FailedError)
      /\ ~Called(calls[r], {"set"})
      /\ ~Keeps(fetched[r]) /\ ~Keeps(Rewritten(config, fetched[r]))

C7_Witness ==
  \E r \in Reqs :
    /\ fetched[r] # NoSummary
    /\ fetched[r].url = Str(ScriptUrl)
    /\ reply[r].code = 422

(***************************************************************************)
(* C8                                                                      *)
(***************************************************************************)
\* C8: a request whose fetch resolved to a result with an http(s) canonical
\* URL and a player URL that is neither http nor https ends with the 422
\* URL_PREVIEW_FAILED response and nothing of it is written to the cache.
C8_BadPlayerNotCached ==
  \A r \in Reqs :
    ( /\ fetched[r] # NoSummary
      /\ HttpScheme(fetched[r].url)
      /\ fetched[r].hasPlayer
      /\ IsString(fetched[r].playerUrl) /\ fetched[r].playerUrl.v # <<>>
      /\ ~HttpScheme(fetched[r].playerUrl) ) =>
      /\ pc[r] = "done"
      /\ reply[r] = Reply(422, OneDay, FailedError)
      /\ ~Called(calls[r], {"set"})
      /\ ~Keeps(fetched[r]) /\ ~Keeps(Rewritten(config, fetched[r]))

C8_Witness ==
  \E r \in Reqs :
    /\ fetched[r] # NoSummary
    /\ HttpScheme(fetched[r].url)
    /\ fetched[r].playerUrl = Str(ScriptUrl)
    /\ reply[r].code = 422

(***************************************************************************)
(* C9                                                                      *)
(***************************************************************************)
\* C9: a call whose url is missing or is an array ends at once with status
\* 400, no header and an empty body, having called no collaborator: no
\* configuration read, no cache read or write, no fetch.
C9_BadUrlRejected ==
  \A r \in Reqs :
    (pc[r] # "idle" /\ NotAString(request[r].url)) =>
      /\ pc[r] = "done"
      /\ reply[r] = Reply(400, NoHeader, Undefined)
      /\ calls[r] = <<>>
      /\ ~HasRead(r)

C9_Witness ==
  \E r1, r2 \in Reqs :
    /\ pc[r1] = "done" /\ request[r1].url.t = "undefined" /\ reply[r1].code = 400
    /\ pc[r2] = "done" /\ request[r2].url.t = "array" /\ reply[r2].code = 400

(***************************************************************************)
(* C10                                                                     *)
(***************************************************************************)
\* C10: a call with a string url and an array lang ends at once with status
\* 400, having called no collaborator: no cache read or write, no fetch.
C10_ArrayLangRejected ==
  \A r \in Reqs :
    (pc[r] # "idle" /\ IsString(request[r].url) /\ request[r].lang.t = "array") =>
      /\ pc[r] = "done"
      /\ reply[r].code = 400
      /\ calls[r] = <<>>

C10_Witness ==
  \E r \in Reqs :
    /\ pc[r] = "done"
    /\ IsString(request[r].url) /\ request[r].lang.t = "array"
    /\ reply[r] = Reply(400, NoHeader, Undefined)

(***************************************************************************)
(* Vocabulary of the properties on failures, fetches and stored values     *)
(***************************************************************************)
TryFailures == FetchErrors \cup {"unsupported schema included", "TypeError"}
CacheFailures == {"cache read", "cache write"}
Failed422 == Reply(422, OneDay, FailedError)
Caught(r) == pc[r] = "done" /\ err[r] # NoError
FetchesOf(c) == SelectSeq(c, LAMBDA x : x \in {"direct", "proxy"})
NonEmptyString(x) == IsString(x) /\ x.v # <<>>
\* both scheme tests of the try block, stated on the fetched value
SchemesOk(s) ==
  /\ s # NoSummary
  /\ HttpScheme(s.url)
  /\ s.hasPlayer
  /\ NonEmptyString(s.playerUrl) => HttpScheme(s.playerUrl)
\* the fetched value with its two image fields passed through wrap
Wrapped(s) ==
  [s EXCEPT !.icon = wrap(config, s.icon), !.thumbnail = wrap(config, s.thumbnail)]
\* the request whose write to key k was the last one (0: none)
LastWriter(k) ==
  LET I == {i \in DOMAIN wrote : key[wrote[i]] = k}
  IN IF I = {} THEN 0 ELSE wrote[CHOOSE i \in I : \A j \in I : j <= i]

(***************************************************************************)
(* C11                                                                     *)
(***************************************************************************)
\* C11: on a cache miss, when the direct fetch or the proxy fetch throws
\* (network error, timeout, content length limit) or a scheme test throws,
\* the call ends with one reply: status 422, Cache-Control
\* 'max-age=86400, immutable' and the URL_PREVIEW_FAILED error body; a
\* fetched value that fails a scheme test ends the same way.
C11_FetchFailureGives422 ==
  \A r \in Reqs :
    /\ err[r] \in TryFailures => (pc[r] = "done" /\ reply[r] = Failed422)
    /\ (fetched[r] # NoSummary /\ ~SchemesOk(fetched[r]) /\ pc[r] # "fetch") =>
         (pc[r] = "done" /\ reply[r] = Failed422 /\ ~Called(calls[r], {"set"}))

C11_Witness ==
  \E r1, r2 \in Reqs :
    /\ err[r1] = "timeout" /\ Called(calls[r1], {"proxy"})
    /\ reply[r1] = Failed422
    /\ err[r2] = "unsupported schema included" /\ Called(calls[r2], {"direct"})
    /\ reply[r2] = Failed422

(***************************************************************************)
(* C12                                                                     *)
(***************************************************************************)
\* C12: an error of the cache layer, on the read (get) or on the write
\* (set), is caught like a fetch failure: the call ends with status 422,
\* the one-day Cache-Control and the URL_PREVIEW_FAILED body.
C12_CacheErrorGives422 ==
  \A r \in Reqs :
    err[r] \in CacheFailures => (pc[r] = "done" /\ reply[r] = Failed422)

(***************************************************************************)
(* C13                                                                     *)
(***************************************************************************)
\* C13: whatever collaborator fails (settings read, cache read, cache
\* write, direct fetch, proxy fetch), no exception leaves handle(): a call
\* that has ended has sent exactly one reply with status 200, 400, 403 or
\* 422.
C13_NoExceptionEscapes ==
  \A r \in Reqs :
    /\ pc[r] # "thrown"
    /\ pc[r] = "done" => reply[r].code \in {200, 400, 403, 422}

(***************************************************************************)
(* C14                                                                     *)
(***************************************************************************)
\* C14: a reply with status 200 carries Cache-Control
\* 'max-age=604800, immutable', a reply with status 422 carries
\* 'max-age=86400, immutable'; the seven-day value never goes with 422,
\* also when the failure is the cache write, after the header of the
\* success path could have been set.
C14_CacheControlFollowsStatus ==
  \A r \in Reqs :
    pc[r] = "done" =>
      /\ reply[r].code = 200 => reply[r].cacheControl = SevenDays
      /\ reply[r].code = 422 => reply[r].cacheControl = OneDay
      /\ reply[r].cacheControl = SevenDays => reply[r].code = 200
      /\ err[r] = "cache write" =>
           (reply[r].code = 422 /\ reply[r].cacheControl = OneDay)

C14_Witness ==
  \E r1, r2 \in Reqs :
    /\ pc[r1] = "done" /\ err[r1] = "cache write"
    /\ reply[r1].code = 422 /\ reply[r1].cacheControl = OneDay
    /\ pc[r2] = "done" /\ reply[r2].code = 200
    /\ reply[r2].cacheControl = SevenDays

(***************************************************************************)
(* C15                                                                     *)
(***************************************************************************)
\* C15: when concurrent calls miss on the same key, fetch and write, the
\* value the cache holds for the key is the whole result of one of the
\* fetches -- that of the last writer -- after both scheme tests and the
\* rewriting of icon and thumbnail: never a mixture of two results, never
\* an unvalidated one.
C15_LastWriteWinsWhole ==
  \A k \in DOMAIN previewCache :
    LET w == LastWriter(k)
    IN /\ w \in Reqs
       /\ SchemesOk(fetched[w])
       /\ CacheGetValue(k) = Wrapped(fetched[w])

C15_Witness ==
  \E r1, r2 \in Reqs :
    /\ r1 # r2 /\ key[r1] = key[r2]
    /\ wrote = <<r1, r2>>
    /\ fetched[r1] # fetched[r2]
    /\ key[r1] \in DOMAIN previewCache
    /\ CacheGetValue(key[r1]) = Wrapped(fetched[r2])
    /\ CacheGetValue(key[r1]) # Wrapped(fetched[r1])

(***************************************************************************)
(* C16                                                                     *)
(***************************************************************************)
\* C16: the 422 reply does not depend on the cause: any two calls that
\* ended in the catch block, whatever was thrown, have the same status,
\* the same Cache-Control and the same body, whose error has the three
\* fixed members message, code and id and nothing of the exception.
C16_FailureReplyHidesCause ==
  \A r1, r2 \in Reqs :
    (Caught(r1) /\ Caught(r2)) =>
      /\ reply[r1] = reply[r2]
      /\ DOMAIN reply[r1].body = {"error"}
      /\ DOMAIN reply[r1].body.error = {"message", "code", "id"}
      /\ reply[r1].body.error.code = "URL_PREVIEW_FAILED"

C16_Witness ==
  \E r1, r2 \in Reqs :
    /\ Caught(r1) /\ Caught(r2)
    /\ request[r1] = request[r2]
    /\ err[r1] \in FetchErrors /\ err[r2] = "cache write"
    /\ reply[r1] = reply[r2]

(***************************************************************************)
(* C17                                                                     *)
(***************************************************************************)
\* reading a query string back: its parameters, and the text a parameter
\* value stands for
IndexOf(s, c) ==
  IF \E i \in DOMAIN s : s[i] = c
  THEN CHOOSE i \in DOMAIN s : s[i] = c /\ \A j \in 1..(i - 1) : s[j] # c
  ELSE 0

RECURSIVE SplitOn(_, _)
SplitOn(s, c) ==
  IF IndexOf(s, c) = 0 THEN <<s>>
  ELSE <<SubSeq(s, 1, IndexOf(s, c) - 1)>>
       \o SplitOn(SubSeq(s, IndexOf(s, c) + 1, Len(s)), c)

ParamsOf(s) == {SplitOn(s, "&")[i] : i \in DOMAIN SplitOn(s, "&")}

Escapes ==
  {<<":", <<"%","3","A">>>>, <<"/", <<"%","2","F">>>>, <<"@", <<"%","4","0">>>>,
   <<"&", <<"%","2","6">>>>, <<"=", <<"%","3","D">>>>, <<"?", <<"%","3","F">>>>}

RECURSIVE decodeURIComponent(_)
decodeURIComponent(s) ==
  IF s = <<>> THEN <<>>
  ELSE IF Head(s) = "%" /\ Len(s) >= 3 /\ \E e \in Escapes : e[2] = SubSeq(s, 1, 3)
       THEN <<(CHOOSE e \in Escapes : e[2] = SubSeq(s, 1, 3))[1]>>
            \o decodeURIComponent(SubSeq(s, 4, Len(s)))
       ELSE <<Head(s)>> \o decodeURIComponent(Tail(s))

endsWith(s, t) == Len(t) <= Len(s) /\ SubSeq(s, Len(s) - Len(t) + 1, Len(s)) = t
PreviewPath == <<"/","p","r","e","v","i","e","w",".","w","e","b","p","?">>
AfterPrefix(s, p) == SubSeq(s, Len(p) + 1, Len(s))
UrlParam == <<"u","r","l","=">>
PreviewParam == <<"p","r","e","v","i","e","w","=","1">>

\* C17: wrap of null or undefined is null; an argument that does not start
\* with 'http://' or 'https://' is returned as it is, with or without an
\* image proxy; an http(s) argument without an image proxy gives
\* <mediaProxy>/preview.webp? followed by a query string that has the
\* parameter preview=1 and a parameter url whose decoded value is the
\* argument; with an image proxy it gives a URL at the image-proxy endpoint
\* that ends in the argument and is not the media-proxy form.
C17_WrapCases ==
  wrapOut # NotCalled =>
    IF wrapIn.t \in {"undefined", "null"} THEN wrapOut = Null
    ELSE IF ~HttpScheme(wrapIn) THEN wrapOut = wrapIn
    ELSE IF config.imgproxyURL.t \in {"undefined", "null"}
    THEN /\ IsString(wrapOut)
         /\ startsWith(wrapOut.v, config.mediaProxy.v \o PreviewPath)
         /\ LET ps == ParamsOf(AfterPrefix(wrapOut.v, config.mediaProxy.v \o PreviewPath))
            IN /\ PreviewParam \in ps
               /\ \E p \in ps : /\ startsWith(p, UrlParam)
                                /\ decodeURIComponent(AfterPrefix(p, UrlParam)) = wrapIn.v
    ELSE /\ IsString(wrapOut)
         /\ startsWith(wrapOut.v, config.imgproxyURL.v \o <<"/">>)
         /\ ~startsWith(wrapOut.v, config.mediaProxy.v \o PreviewPath)
         /\ endsWith(wrapOut.v, wrapIn.v \o <<"@","w","e","b","p">>)

C17_Witness ==
  /\ wrapOut # NotCalled
  /\ HttpScheme(wrapIn)
  /\ config.imgproxyURL.t \in {"undefined", "null"}
  /\ IndexOf(wrapIn.v, "&") # 0
  /\ IsString(wrapOut) /\ wrapOut # wrapIn

(***************************************************************************)
(* C18                                                                     *)
(***************************************************************************)
\* C18: a fetched result, direct or from the proxy, whose own URL is
\* http(s) and whose player member is missing, or is there without a URL,
\* passes the scheme tests: the call goes on to the cache write and, when
\* the write succeeds, ends with status 200 and the value stored.
C18_PlayerOptional ==
  \A r \in Reqs :
    ( /\ fetched[r] # NoSummary
      /\ HttpScheme(fetched[r].url)
      /\ (~fetched[r].hasPlayer \/ ~NonEmptyString(fetched[r].playerUrl)) ) =>
        /\ pc[r] \in {"set", "done"}
        /\ err[r] \in {NoError, "cache write"}
        /\ (pc[r] = "done" /\ err[r] = NoError) =>
             (reply[r].code = 200 /\ r \in {wrote[i] : i \in DOMAIN wrote})

(***************************************************************************)
(* C19                                                                     *)
(***************************************************************************)
\* C19: a call makes at most one fetch; once a call that missed has left
\* the fetch it has made exactly one, through the proxy if and only if the
\* settings that this call read have a summary proxy URL, directly
\* otherwise; a failed fetch is not followed by another one.
C19_OneFetchBySnapshot ==
  \A r \in Reqs :
    /\ Len(FetchesOf(calls[r])) <= 1
    /\ (Called(calls[r], {"get"}) /\ pc[r] \in {"set", "done"}
        /\ ~(pc[r] = "done" /\ reply[r].code = 200 /\ fetched[r] = NoSummary)) =>
         /\ Len(FetchesOf(calls[r])) = 1
         /\ Called(calls[r], {"proxy"}) <=>
              NonEmptyString(meta[r].urlPreviewSummaryProxyUrl)
    /\ err[r] \in FetchErrors =>
         (pc[r] = "done" /\ Len(FetchesOf(calls[r])) = 1)

C19_Witness ==
  \E r1, r2 \in Reqs :
    /\ err[r1] \in FetchErrors /\ FetchesOf(calls[r1]) = <<"proxy">>
    /\ meta[r1] # settings
    /\ ~NonEmptyString(settings.urlPreviewSummaryProxyUrl)
    /\ pc[r2] = "done" /\ FetchesOf(calls[r2]) = <<"direct">>
    /\ reply[r2].code = 200

(***************************************************************************)
(* C20                                                                     *)
(***************************************************************************)
\* C20: a call that fetched and wrote stores and returns the fetched
\* result with icon and thumbnail passed through wrap once (null or
\* missing gives null, a field that is not http(s) is kept as it is); the
\* write comes only after both scheme tests passed; the body returned is
\* the value stored; and a later hit on the key returns the body of the
\* call whose write it reads, not wrapped again.
C20_StoredIsWrappedOnceAndReturned ==
  \A r \in Reqs :
    /\ pc[r] = "set" =>
         (SchemesOk(fetched[r]) /\ summary[r] = Wrapped(fetched[r]))
    /\ (pc[r] = "done" /\ reply[r].code = 200) =>
         IF Called(calls[r], {"set"})
         THEN /\ SchemesOk(fetched[r])
              /\ reply[r].body = Wrapped(fetched[r])
              /\ fetched[r].icon.t \in {"undefined", "null"} => reply[r].body.icon = Null
              /\ (IsString(fetched[r].icon) /\ ~HttpScheme(fetched[r].icon)) =>
                   reply[r].body.icon = fetched[r].icon
              /\ (LastWriter(key[r]) = r /\ key[r] \in DOMAIN previewCache) =>
                   CacheGetValue(key[r]) = reply[r].body
         ELSE \E i \in DOMAIN wrote :
                /\ key[wrote[i]] = key[r]
                /\ reply[r].body = Wrapped(fetched[wrote[i]])
                /\ reply[r].body = reply[wrote[i]].body

C20_Witness ==
  \E r1, r2 \in Reqs :
    /\ wrote = <<r1>>
    /\ pc[r1] = "done" /\ reply[r1].code = 200
    /\ HttpScheme(fetched[r1].thumbnail)
    /\ IsString(fetched[r1].icon) /\ ~HttpScheme(fetched[r1].icon)
    /\ pc[r2] = "done" /\ reply[r2].code = 200
    /\ calls[r2] = <<"meta", "get">>
    /\ reply[r2].body = reply[r1].body
    /\ reply[r2].body.thumbnail # fetched[r1].thumbnail

(***************************************************************************)
(* C21                                                                     *)
(***************************************************************************)
LastCall(c) == IF c = <<>> THEN "none" ELSE c[Len(c)]
CallsOneMore(r, what) ==
  Len(calls'[r]) = Len(calls[r]) + 1 /\ LastCall(calls'[r]) = what
\* the step is the successful set of request r: one entry, under r's key
IsSetOf(r) ==
  /\ pc[r] = "set" /\ pc'[r] = "done"
  /\ err'[r] = NoError /\ reply'[r].code = 200
  /\ SchemesOk(fetched[r])
  /\ DOMAIN previewCache' = DOMAIN previewCache \cup {key[r]}
  /\ \A k \in DOMAIN previewCache : k # key[r] => previewCache'[k] = previewCache[k]
\* the step is the end of an entry's lifetime
IsExpiry ==
  \E k \in DOMAIN previewCache : previewCache' = CacheDrop(previewCache, k)

\* C21: apart from an entry reaching the end of its lifetime, the cache
\* changes only in the step in which a call that fetched and validated
\* makes its set; a step that reads the cache (hit or miss) leaves the
\* cache as it was, and so does every step in which a call ends with
\* status 400, 403 or 422, so that the key of a failed call is still
\* absent for the next call.
C21_OnlySetChangesCache ==
  [][ /\ previewCache' # previewCache => (IsExpiry \/ \E r \in Reqs : IsSetOf(r))
      /\ \A r \in Reqs : CallsOneMore(r, "get") => previewCache' = previewCache
      /\ \A r \in Reqs :
           (pc[r] # "done" /\ pc'[r] = "done" /\ reply'[r].code \in {400, 403, 422}) =>
             previewCache' = previewCache ]_vars

C21_Witness ==
  \E r1, r2 \in Reqs :
    /\ pc[r1] = "done" /\ reply[r1].code = 422 /\ err[r1] \in TryFailures
    /\ request[r2] = request[r1]
    /\ calls[r2] = <<"meta", "get">> /\ pc[r2] = "fetch"
    /\ key[r1] \notin DOMAIN previewCache
    /\ wrote = <<>>

(***************************************************************************)
(* C22                                                                     *)
(***************************************************************************)
HasHttpUrls(v) ==
  /\ HttpScheme(v.url)
  /\ NonEmptyString(v.playerUrl) => HttpScheme(v.playerUrl)

\* C22: in every reachable state every value held in the cache has an own
\* URL starting with 'http://' or 'https://' and a player URL, when it has
\* one, starting with 'http://' or 'https://'; and every body sent with
\* status 200, from a hit or from a fetch, has the same.
C22_CachedAndServedAreHttp ==
  /\ \A k \in DOMAIN previewCache : HasHttpUrls(CacheGetValue(k))
  /\ \A r \in Reqs :
       (pc[r] = "done" /\ reply[r].code = 200) => HasHttpUrls(reply[r].body)

C22_Witness ==
  \E r1, r2 \in Reqs :
    /\ pc[r1] = "done" /\ reply[r1].code = 422
    /\ err[r1] = "unsupported schema included"
    /\ pc[r2] = "done" /\ reply[r2].code = 200
    /\ key[r1] = key[r2]
    /\ HttpScheme(reply[r2].body.playerUrl)
    /\ key[r2] \in DOMAIN previewCache
    /\ HttpScheme(CacheGetValue(key[r2]).playerUrl)

(***************************************************************************)
(* C23                                                                     *)
(***************************************************************************)
\* C23: whenever renoting is true it becomes false again later, in mock
\* mode or not, for a channel note or another note, whether notes/create
\* succeeds or fails; and while a notes/create request is in flight no step
\* of the button or of the shortcut sends another one.
C23_FlagReleasedAndOneRequest ==
  /\ [](renoting => <>(~renoting))
  /\ [][pending > 0 => pending' <= pending]_vars

====
